---- MODULE Spec2Model ----
(***************************************************************************)
(* A model of kusp's TCP server, src/kusp/io.py (class IPProtocol), and of *)
(* the helpers it calls (recv_exact, load_kusp_callable in utils.py).      *)
(*                                                                         *)
(* The server is one thread running start() and then serve(); its          *)
(* position is pc.  The SIGINT handler _on_sigint runs between any two     *)
(* steps of that thread while it is installed.  The peer, the model file   *)
(* on disk and the handler's behaviour are the environment: their choices  *)
(* are the \E of the actions.                                              *)
(***************************************************************************)
EXTENDS Integers, Sequences, FiniteSets, TLC

(* ------------------------------ bounds -------------------------------- *)

\* max_atoms, a constructor argument (io.py:27/51), kept small here.
MaxAtoms == 2
\* Largest reading of time.monotonic() the model draws.
MaxClock == 6
\* Number of SIGINTs delivered in one run.
MaxSigints == 2
\* Number of requests a peer sends on one connection.
MaxReqs == 2
\* Number of times the caller starts one instance.
MaxStarts == 2
\* Longest parameter list of a callable handed to kusp_model.
MaxParams == 4
\* Largest size argument of a recv_exact call.
MaxSize == 3
\* Most bytes a peer sends before it closes or falls silent.
MaxStream == 4
\* Number of start() calls a caller makes on one instance.
MaxCalls == 4
\* Most objects in the namespace of a model file.
MaxObjs == 2

(* ------------------------- program constants -------------------------- *)

\* io.py:17  _sigint_window_sec = 2.0 (one model time unit is one second)
SigintWindow == 2
\* io.py:212  recv_exact(client_socket, 4)
HeaderBytes == 4
\* io.py:254  coords_nbytes = 8 * 3 * n_atoms
CoordBytesPerAtom == 24
\* lj.py:54  the energy a handler returns is one float64 (io.py:315 sends it)
EnergyBytes == 8

\* C11 mutant: a 16-byte integer format is accepted too
fmt_map_mut == {4, 8, 16}

\* io.py:189  fmt_map = {4: ("i", np.int32), 8: ("q", np.int64)}
fmt_map == {4, 8}

(* ------------------------------ state --------------------------------- *)

VARIABLES
    pc,                 \* position of the server thread
    ret,                \* who called _maybe_reload: "outer" or "inner" loop
    server_socket,      \* "none" or "listening"   (self.server_socket)
    running,            \* self._running
    sigint_installed,   \* _on_sigint is the process's SIGINT handler
    n_bind,             \* listening sockets bound so far
    n_close,            \* close() calls made on listening sockets so far
    model_file,         \* a model file is configured (self._model_file)
    handler,            \* self._handler: 0 is None, k > 0 the k-th instance made
    n_inst,             \* handler instances made so far
    last_reload,        \* what the latest _maybe_reload logged
    reload_requested,   \* self._reload_requested
    shutdown_requested, \* self._shutdown_requested
    last_sigint_ts,     \* self._last_sigint_ts
    clock,              \* latest reading of time.monotonic() (0 before any)
    n_sigint,           \* SIGINTs delivered to _on_sigint so far
    reload_req_pc,      \* where the server was when the oldest reload request
                        \* not yet taken up by _maybe_reload arrived
    conn,               \* "none" or "open": the accepted client socket
    n_open,             \* accepted client sockets not closed yet
    sock_timeout,       \* which setting the client socket's timeout was last
                        \* set from: "recv_timeout_s" or "send_timeout_s"
    recvd,              \* requests received in full on this connection
    calls,              \* handler calls made for this connection
    done,               \* responses written in full on this connection
    int_width,          \* the current frame's width tag (0: not read yet)
    n_atoms,            \* the current frame's atom count (0: not read yet)
    rd,                 \* bytes read from the peer for the current frame
    wr,                 \* bytes written to the peer for the current frame
    invoked,            \* the handler was called for the current frame
    used_handler,       \* the instance called for the current frame
    handler_at_start,   \* self._handler when the frame's header was read
    result,             \* what the handler returned for the current frame
    recv_err,           \* the ConnectionError recv_exact last raised
    close_reason,       \* the log line of the break that last closed a connection
    exc,                \* the exception serve()/start() ended with
    stage,              \* codec runs: how far one frame's data has got
    request,            \* codec runs: what the peer built the frame from
    wire,               \* codec runs: the frame's bytes
    args,               \* codec runs: the arrays the handler is called with
    reply,              \* codec runs: the (energy, forces) the handler returned
    out_bytes,          \* codec runs: the bytes written back
    functor,            \* decorator runs: the callable or class decorated
    strict_arg_check,   \* decorator runs: kusp_model's argument
    decorated,          \* decorator runs: what _decorator(functor) did
    post_calls,         \* ghost: handler calls begun with shutdown_requested set
    sent,               \* recv_exact runs: the bytes the peer sends in all
    sock,               \* recv_exact runs: those of them not yet received
    rx_size,            \* recv_exact runs: the size argument
    chunks,             \* recv_exact runs: the list chunks
    remaining,          \* recv_exact runs: the local remaining
    rx,                 \* recv_exact runs: idle, loop, returned or raised
    rresult,            \* recv_exact runs: the bytes returned
    n_recv,             \* ghost: sock.recv calls made
    asked,              \* ghost: the argument of the last sock.recv call
    n_start,            \* ghost: calls of start() made by the caller
    n_ready,            \* ghost: calls of on_ready made by start()
    mod_objs,           \* load runs: the values of module.__dict__
    import_res,         \* load runs: what importing the module file does
    ctor_res,           \* load runs: what calling an exported class does
    loaded,             \* load runs: how load_kusp_callable ended
    lhandler,           \* load runs: what load_kusp_callable returned
    ks_peer,            \* legacy runs: the frame of the peer and how much it sends
    ks_avail,           \* legacy runs: bytes sent and not yet received
    ks_pc,              \* legacy runs: where KUSPServer.serve is
    ks_int_width,       \* legacy runs: int_width
    ks_n_atoms,         \* legacy runs: n_atoms
    ks_size,            \* legacy runs: total_config_size
    ks_recv_size,       \* legacy runs: recv_size of get_all_data
    ks_natoms_len,      \* ghost: bytes the read of n_atoms returned
    ks_err,             \* legacy runs: the exception logged at the break
    ks_served,          \* ghost: requests answered
    ks_spin             \* ghost: empty reads of get_all_data, modulo 2

ctl   == <<reload_requested, shutdown_requested, last_sigint_ts, clock,
           n_sigint, reload_req_pc, post_calls>>
life  == <<server_socket, running, sigint_installed, n_bind, n_close>>
hnd   == <<handler, n_inst, last_reload>>
frame == <<int_width, n_atoms, rd, wr, invoked, used_handler,
           handler_at_start, result, recv_err>>
cx    == <<n_open, sock_timeout, recvd, calls, done>>
codec == <<stage, request, wire, args, reply, out_bytes>>
deco  == <<functor, strict_arg_check, decorated>>
recvx == <<sent, sock, rx_size, chunks, remaining, rx, rresult, n_recv, asked>>
\* the variables of the runs of library functions
startx == <<n_start, n_ready>>
loadx == <<mod_objs, import_res, ctor_res, loaded, lhandler>>
legx  == <<ks_peer, ks_avail, ks_pc, ks_int_width, ks_n_atoms, ks_size,
           ks_recv_size, ks_natoms_len, ks_err, ks_served, ks_spin>>
lib   == <<recvx, startx, loadx, legx>>
\* what no step of the server assigns
fixed == <<model_file, codec, deco, lib>>
vars  == <<pc, ret, life, fixed, cx, hnd, ctl, conn, frame, close_reason, exc>>

(* ----------------------------- wire codec ----------------------------- *)

\* struct.pack of a small signed integer v into w little-endian bytes
\* (what a peer on the same architecture puts on the wire).
Pack(w, v) ==
    [i \in 1..w |-> IF v >= 0 THEN (IF i = 1 THEN v ELSE 0)
                              ELSE (IF i = 1 THEN 256 + v ELSE 255)]

RECURSIVE Horner(_, _, _)
Horner(bytes, i, acc) ==
    IF i = 0 THEN acc ELSE Horner(bytes, i - 1, acc * 256 + bytes[i])

\* struct.unpack("i" / "q", bytes)[0]: little-endian two's complement.
Unpack(bytes) ==
    LET w == Len(bytes) IN
    IF bytes[w] >= 128
    THEN -(1 + Horner([i \in 1..w |-> 255 - bytes[i]], w, 0))
    ELSE Horner(bytes, w, 0)

\* C2 mutant: the range check lets n_atoms = 0 through
ValidAtomCount_mut(n) == ~(n < 0 \/ n > MaxAtoms)

\* io.py:247  the atom counts the server accepts
ValidAtomCount(n) == ~(n <= 0 \/ n > MaxAtoms)

\* C17 mutant: the mask is read as one byte per atom
contrib_nbytes_mut(w, n) == n

\* io.py:253-255
numbers_nbytes(w, n) == w * n
coords_nbytes(n)     == CoordBytesPerAtom * n
contrib_nbytes(w, n) == w * n

\* bytes of one whole request frame
FrameBytes(w, n) ==
    HeaderBytes + w + numbers_nbytes(w, n) + coords_nbytes(n) + contrib_nbytes(w, n)

(* ------------------------------ inputs -------------------------------- *)

\* width tags a peer may send: the two supported ones and some that are not
WidthInputs == {4, 8, 2, 16, 0, 0 - 1}
\* atom counts a peer may send
AtomInputs == (0 - 1)..(MaxAtoms + 1)
\* why a recv_exact fell short (utils.py:38,40,42)
RecvErrors == {"recv timeout", "recv error", "peer closed connection"}
\* what the handler does when called
HandlerOutcomes ==
    {"arrays", "raises", "not_a_pair", "energy_not_array", "forces_not_array",
     "forces_wrong_rows"}

\* C10 mutant: recv_exact hands back whatever arrived, short or not, without
\* raising
recv_exact_mut(size) ==
    {[got |-> k, err |-> "none"] : k \in 0..size}

\* utils.py:19-45  recv_exact(sock, size): all size bytes, or a ConnectionError
\* after k < size of them arrived.
recv_exact(size) ==
    {[got |-> size, err |-> "none"]}
        \cup {[got |-> k, err |-> e] : k \in 0..(size - 1), e \in RecvErrors}

(* ------------------------------- Init --------------------------------- *)

NoFrame ==
    /\ int_width = 0 /\ n_atoms = 0 /\ rd = 0 /\ wr = 0
    /\ invoked = FALSE /\ used_handler = 0 /\ handler_at_start = 0
    /\ result = "none" /\ recv_err = "none"

\* the frame data of an iteration that has read nothing yet
reset_frame ==
    /\ int_width' = 0 /\ n_atoms' = 0 /\ rd' = 0 /\ wr' = 0
    /\ invoked' = FALSE /\ used_handler' = 0 /\ handler_at_start' = 0
    /\ result' = "none" /\ recv_err' = "none"

\* no codec run is under way
NoCodec ==
    /\ stage = "idle"
    /\ request = [w |-> 0, n |-> 0, Z |-> <<>>, R |-> <<>>, M |-> <<>>]
    /\ wire = <<>>
    /\ args = [Z |-> <<>>, R |-> <<>>, M |-> <<>>]
    /\ reply = [energy |-> <<>>, forces |-> <<>>]
    /\ out_bytes = <<>>

\* io.py:45-68  IPProtocol.__init__
ServerInit ==
    /\ pc = "constructed"
    /\ ret = "outer"
    /\ server_socket = "none"
    /\ running = FALSE
    /\ sigint_installed = FALSE
    /\ n_bind = 0
    /\ n_close = 0
    /\ model_file \in BOOLEAN
    /\ handler = 0
    /\ n_inst = 0
    /\ last_reload = "none"
    /\ reload_requested = FALSE
    /\ shutdown_requested = FALSE
    /\ last_sigint_ts = 0
    /\ clock = 0
    /\ n_sigint = 0
    /\ reload_req_pc = "none"
    /\ post_calls = 0
    /\ conn = "none"
    /\ n_open = 0
    /\ sock_timeout = "none"
    /\ recvd = 0 /\ calls = 0 /\ done = 0
    /\ NoFrame
    /\ close_reason = "none"
    /\ exc = "none"

\* no decorator run is under way
NoDeco ==
    /\ functor = [is_class |-> FALSE, params |-> <<>>, hint |-> "none"]
    /\ strict_arg_check = TRUE
    /\ decorated = "idle"

\* no recv_exact run is under way
NoRecv ==
    /\ sent = <<>> /\ sock = <<>> /\ rx_size = 0
    /\ chunks = <<>> /\ remaining = 0
    /\ rx = "idle" /\ rresult = <<>>
    /\ n_recv = 0 /\ asked = 0

\* the caller has not called start() yet
NoStart == n_start = 0 /\ n_ready = 0

\* no load_kusp_callable run is under way
NoLoad ==
    /\ mod_objs = <<>>
    /\ import_res = "ok" /\ ctor_res = "ok"
    /\ loaded = "idle" /\ lhandler = "none"

\* no KUSPServer is serving
NoLegacy ==
    /\ ks_peer = [w |-> 0, n |-> 0, sent |-> 0]
    /\ ks_avail = 0
    /\ ks_pc = "idle"
    /\ ks_int_width = 0 /\ ks_n_atoms = 0 /\ ks_size = 0 /\ ks_recv_size = 0
    /\ ks_natoms_len = 0
    /\ ks_err = "none"
    /\ ks_served = 0 /\ ks_spin = 0

NoLib == NoRecv /\ NoStart /\ NoLoad /\ NoLegacy

Init == ServerInit /\ NoCodec /\ NoDeco /\ NoLib

(* ----------------------- start / stop / serve entry ------------------- *)

\* C21 mutant: stop() closes the socket field without testing it
stop_mut ==
    /\ running' = FALSE
    /\ n_close' = n_close + 1
    /\ server_socket' = "none"
    /\ sigint_installed' = FALSE
    /\ n_bind' = n_bind

\* io.py:152-164  stop(): closes the listening socket if there is one, unsets
\* it, restores the default SIGINT handler.
stop ==
    /\ running' = FALSE
    /\ n_close' = IF server_socket # "none" THEN n_close + 1 ELSE n_close
    /\ server_socket' = "none"
    /\ sigint_installed' = FALSE
    /\ n_bind' = n_bind

\* where the caller is when no start() or serve() of its is running and it
\* has not started the server: it may call stop() (cli.py:190-194 does, after
\* serve() returned or raised)
StoppablePcs ==
    {"constructed", "start_failed", "serve_failed", "returned", "raised", "stopped"}

\* a call of stop() by the caller, io.py:152-164
stop_call ==
    /\ pc \in StoppablePcs
    /\ stop
    /\ pc' = "stopped"
    /\ UNCHANGED <<ret, fixed, cx, hnd, ctl, conn, frame, close_reason, exc>>

\* C22 mutant: the fields are assigned before bind() is tried
start_mut ==
    /\ server_socket = "none"
    /\ n_bind < MaxStarts
    /\ \/ pc = "constructed"
       \/ pc = "returned" /\ shutdown_requested
    /\ \E bound \in BOOLEAN :
        IF bound
        THEN /\ server_socket' = "listening"
             /\ running' = TRUE
             /\ sigint_installed' = TRUE
             /\ n_bind' = n_bind + 1
             /\ n_close' = n_close
             /\ pc' = "started"
             /\ exc' = exc
        ELSE /\ pc' = "start_failed"
             /\ exc' = "OSError"
             /\ server_socket' = "listening"
             /\ running' = TRUE
             /\ UNCHANGED <<sigint_installed, n_bind, n_close>>
    /\ UNCHANGED <<ret, fixed, cx, hnd, ctl, conn, frame, close_reason>>

\* C29 mutant: start() begins a new life of the instance, the shutdown
\* request of the previous one is forgotten
start_resets ==
    /\ server_socket = "none"
    /\ n_bind < MaxStarts
    /\ \/ pc = "constructed"
       \/ pc = "returned" /\ shutdown_requested
    /\ \E bound \in BOOLEAN :
        IF bound
        THEN /\ server_socket' = "listening"
             /\ running' = TRUE
             /\ sigint_installed' = TRUE
             /\ n_bind' = n_bind + 1
             /\ n_close' = n_close
             /\ pc' = "started"
             /\ exc' = exc
        ELSE /\ pc' = "start_failed"
             /\ exc' = "OSError"
             /\ UNCHANGED life
    /\ shutdown_requested' = FALSE
    /\ UNCHANGED <<ret, fixed, cx, hnd, conn, frame, close_reason,
                   reload_requested, last_sigint_ts, clock, n_sigint,
                   reload_req_pc, post_calls>>

\* io.py:119-150  start(): bind and listen, or fail with the bind's OSError
\* before any field is assigned.  The caller starts a new instance, or
\* starts again an instance whose shutdown was requested and whose serve()
\* has returned.
start ==
    /\ server_socket = "none"
    /\ n_bind < MaxStarts
    /\ \/ pc = "constructed"
       \/ pc = "returned" /\ shutdown_requested
    /\ \E bound \in BOOLEAN :
        IF bound
        THEN /\ server_socket' = "listening"
             /\ running' = TRUE
             /\ sigint_installed' = TRUE
             /\ n_bind' = n_bind + 1
             /\ n_close' = n_close
             /\ pc' = "started"
             /\ exc' = exc
        ELSE /\ pc' = "start_failed"
             /\ exc' = "OSError"
             /\ UNCHANGED life
    /\ UNCHANGED <<ret, fixed, cx, hnd, ctl, conn, frame, close_reason>>

\* utils.py:209-261  load_kusp_callable: a new instance, or an exception
\* (ImportError, ValueError, TypeError, or whatever the module raises).
load_kusp_callable == {"loaded", "failed"}

\* io.py:175-176  serve() on a server that is not listening
serve_not_started ==
    /\ pc \in {"constructed", "start_failed"}
    /\ server_socket = "none"
    /\ pc' = "serve_failed"
    /\ exc' = "RuntimeError"
    /\ UNCHANGED <<ret, life, fixed, cx, hnd, ctl, conn, frame, close_reason>>

\* C23 mutant: serve() stops the server before it raises for want of a
\* handler
serve_entry_stops ==
    /\ pc = "started"
    /\ server_socket # "none"
    /\ \E given \in BOOLEAN :
        IF given
        THEN /\ handler' = n_inst + 1
             /\ n_inst' = n_inst + 1
             /\ pc' = "outer_check"
             /\ exc' = exc
             /\ last_reload' = last_reload
             /\ UNCHANGED life
        ELSE IF model_file
        THEN \E o \in load_kusp_callable :
                IF o = "loaded"
                THEN /\ handler' = n_inst + 1
                     /\ n_inst' = n_inst + 1
                     /\ pc' = "outer_check"
                     /\ exc' = exc
                     /\ last_reload' = last_reload
                     /\ UNCHANGED life
                ELSE /\ pc' = "serve_failed"
                     /\ exc' = "LoadError"
                     /\ UNCHANGED <<hnd, life>>
        ELSE /\ pc' = "serve_failed"
             /\ exc' = "RuntimeError"
             /\ stop
             /\ UNCHANGED hnd
    /\ UNCHANGED <<ret, fixed, cx, ctl, conn, frame, close_reason>>

\* C20 mutant: with neither a handler nor a model file serve() goes on into
\* the loop
serve_entry_mut ==
    /\ pc = "started"
    /\ server_socket # "none"
    /\ \E given \in BOOLEAN :
        IF given
        THEN /\ handler' = n_inst + 1
             /\ n_inst' = n_inst + 1
             /\ pc' = "outer_check"
             /\ exc' = exc
             /\ last_reload' = last_reload
        ELSE IF model_file
        THEN \E o \in load_kusp_callable :
                IF o = "loaded"
                THEN /\ handler' = n_inst + 1
                     /\ n_inst' = n_inst + 1
                     /\ pc' = "outer_check"
                     /\ exc' = exc
                     /\ last_reload' = last_reload
                ELSE /\ pc' = "serve_failed"
                     /\ exc' = "LoadError"
                     /\ UNCHANGED hnd
        ELSE /\ pc' = "outer_check"
             /\ exc' = exc
             /\ UNCHANGED hnd
    /\ UNCHANGED <<ret, life, fixed, cx, ctl, conn, frame, close_reason>>

\* io.py:175-189  serve(handler) up to the loop: pick the handler; given
\* says whether the handler argument is not None
serve(given) ==
    /\ pc = "started"
    /\ server_socket # "none"
    /\ IF given
       THEN /\ handler' = n_inst + 1
            /\ n_inst' = n_inst + 1
            /\ pc' = "outer_check"
            /\ exc' = exc
            /\ last_reload' = last_reload
       ELSE IF model_file
       THEN \E o \in load_kusp_callable :
               IF o = "loaded"
               THEN /\ handler' = n_inst + 1
                    /\ n_inst' = n_inst + 1
                    /\ pc' = "outer_check"
                    /\ exc' = exc
                    /\ last_reload' = last_reload
               ELSE /\ pc' = "serve_failed"
                    /\ exc' = "LoadError"
                    /\ UNCHANGED hnd
       ELSE /\ pc' = "serve_failed"
            /\ exc' = "RuntimeError"
            /\ UNCHANGED hnd
    /\ UNCHANGED <<ret, life, fixed, cx, ctl, conn, frame, close_reason>>

\* cli.py:190-194 and other callers: serve() with or without a handler
serve_entry == \E given \in BOOLEAN : serve(given)

\* serve(handler=h), the handler argument given
serve_handler == serve(TRUE)

(* ------------------------------ SIGINT -------------------------------- *)

\* C4 mutant: the window's end is excluded (< in place of <=)
_on_sigint_mut(now) ==
    /\ IF now - last_sigint_ts < SigintWindow
       THEN /\ shutdown_requested' = TRUE
            /\ UNCHANGED <<reload_requested, reload_req_pc>>
       ELSE /\ reload_requested' = TRUE
            /\ reload_req_pc' = IF reload_requested THEN reload_req_pc ELSE pc
            /\ UNCHANGED shutdown_requested
    /\ last_sigint_ts' = now

\* io.py:73-93  _on_sigint, with now the value time.monotonic() returned
_on_sigint(now) ==
    /\ IF now - last_sigint_ts <= SigintWindow
       THEN /\ shutdown_requested' = TRUE
            /\ UNCHANGED <<reload_requested, reload_req_pc>>
       ELSE /\ reload_requested' = TRUE
            /\ reload_req_pc' = IF reload_requested THEN reload_req_pc ELSE pc
            /\ UNCHANGED shutdown_requested
    /\ last_sigint_ts' = now

\* A SIGINT is delivered while _on_sigint is installed (io.py:95, 162).  The
\* monotonic clock never runs backwards.
sigint ==
    /\ sigint_installed
    /\ n_sigint < MaxSigints
    /\ \E now \in clock..MaxClock :
        /\ clock' = now
        /\ _on_sigint(now)
    /\ n_sigint' = n_sigint + 1
    /\ UNCHANGED <<pc, ret, life, fixed, cx, hnd, conn, frame, close_reason, exc,
                   post_calls>>

(* --------------------------- _maybe_reload ---------------------------- *)

\* where _maybe_reload returns to: io.py:193 -> accept, io.py:209 -> recv
reload_return == IF ret = "outer" THEN "accept" ELSE "recv_header"

\* io.py:99-100
maybe_reload_test ==
    /\ pc = "reload_test"
    /\ pc' = IF reload_requested THEN "reload_clear" ELSE reload_return
    /\ UNCHANGED <<ret, life, fixed, cx, hnd, ctl, conn, frame, close_reason, exc>>

\* C26 mutant: the flag is cleared, and the load is left for the next
\* request of a reload
maybe_reload_clear_skip ==
    /\ pc = "reload_clear"
    /\ reload_requested' = FALSE
    /\ reload_req_pc' = "none"
    /\ pc' = reload_return
    /\ last_reload' = IF model_file THEN last_reload ELSE "ignored"
    /\ UNCHANGED <<ret, life, fixed, cx, handler, n_inst, conn, frame,
                   close_reason, exc,
                   shutdown_requested, last_sigint_ts, clock, n_sigint,
                   post_calls>>

\* C30 mutant: with no model file to load from, the reload discards the
\* handler
maybe_reload_clear_drops ==
    /\ pc = "reload_clear"
    /\ reload_requested' = FALSE
    /\ reload_req_pc' = "none"
    /\ IF model_file
       THEN pc' = "reload_load" /\ last_reload' = last_reload /\ handler' = handler
       ELSE pc' = reload_return /\ last_reload' = "ignored" /\ handler' = 0
    /\ UNCHANGED <<ret, life, fixed, cx, n_inst, conn, frame,
                   close_reason, exc,
                   shutdown_requested, last_sigint_ts, clock, n_sigint,
                   post_calls>>

\* io.py:101-106
maybe_reload_clear ==
    /\ pc = "reload_clear"
    /\ reload_requested' = FALSE
    /\ reload_req_pc' = "none"
    /\ IF model_file
       THEN pc' = "reload_load" /\ last_reload' = last_reload
       ELSE pc' = reload_return /\ last_reload' = "ignored"
    /\ UNCHANGED <<ret, life, fixed, cx, handler, n_inst, conn, frame,
                   close_reason, exc,
                   shutdown_requested, last_sigint_ts, clock, n_sigint,
                   post_calls>>

\* C3 mutant: the handler is dropped before the load is tried, so a failed
\* load leaves none
maybe_reload_load_mut ==
    /\ pc = "reload_load"
    /\ \E o \in load_kusp_callable :
        IF o = "loaded"
        THEN /\ handler' = n_inst + 1
             /\ n_inst' = n_inst + 1
             /\ last_reload' = "reloaded"
        ELSE /\ handler' = 0
             /\ n_inst' = n_inst
             /\ last_reload' = "failed"
    /\ pc' = reload_return
    /\ UNCHANGED <<ret, life, fixed, cx, ctl, conn, frame, close_reason, exc>>

\* io.py:107-117
maybe_reload_load ==
    /\ pc = "reload_load"
    /\ \E o \in load_kusp_callable :
        IF o = "loaded"
        THEN /\ handler' = n_inst + 1
             /\ n_inst' = n_inst + 1
             /\ last_reload' = "reloaded"
        ELSE /\ UNCHANGED <<handler, n_inst>>
             /\ last_reload' = "failed"
    /\ pc' = reload_return
    /\ UNCHANGED <<ret, life, fixed, cx, ctl, conn, frame, close_reason, exc>>

(* ----------------------------- accept loop ---------------------------- *)

\* io.py:192 (and 329-330 when the loop ends)
outer_check ==
    /\ pc = "outer_check"
    /\ IF running /\ ~shutdown_requested
       THEN /\ pc' = "reload_test"
            /\ ret' = "outer"
            /\ UNCHANGED life
       ELSE /\ stop
            /\ pc' = "returned"
            /\ ret' = ret
    /\ UNCHANGED <<fixed, cx, hnd, ctl, conn, frame, close_reason, exc>>

\* io.py:195-206  accept(): a connection (whose timeout is set from
\* recv_timeout_s, io.py:205), the 0.5 s timeout, or an OSError.  When another
\* thread's stop() has unset server_socket before the call,
\* self.server_socket.accept is an attribute of None: the AttributeError is
\* not caught at io.py:196-201.  When it closed the socket during the call,
\* the call ends with its timeout or with an OSError.
accept ==
    /\ pc = "accept"
    /\ \E got \in {"connection", "timeout", "oserror", "attributeerror"} :
        CASE got = "attributeerror" /\ server_socket = "none" ->
                /\ stop
                /\ pc' = "raised"
                /\ exc' = "AttributeError"
                /\ UNCHANGED <<conn, n_open, sock_timeout>>
          [] got = "connection" /\ server_socket # "none" ->
                /\ conn' = "open"
                /\ n_open' = n_open + 1
                /\ sock_timeout' = "recv_timeout_s"
                /\ pc' = "inner_check"
                /\ UNCHANGED <<life, exc>>
          [] got = "timeout" ->
                /\ pc' = "outer_check"
                /\ UNCHANGED <<life, conn, n_open, sock_timeout, exc>>
          [] got = "oserror" ->
                /\ stop
                /\ IF ~running \/ shutdown_requested
                   THEN pc' = "returned" /\ exc' = exc
                   ELSE pc' = "raised" /\ exc' = "accept OSError"
                /\ UNCHANGED <<conn, n_open, sock_timeout>>
          [] OTHER -> FALSE
    /\ UNCHANGED <<ret, fixed, recvd, calls, done, hnd, ctl, frame, close_reason>>

\* C6 mutant: the connection loop does not call _maybe_reload, pending
\* reloads wait for the accept loop
inner_check_mut ==
    /\ pc = "inner_check"
    /\ IF running /\ ~shutdown_requested
       THEN /\ pc' = "recv_header"
            /\ ret' = "inner"
            /\ reset_frame
            /\ close_reason' = close_reason
       ELSE /\ pc' = "conn_exit"
            /\ close_reason' = "loop ended"
            /\ UNCHANGED <<ret, frame>>
    /\ UNCHANGED <<life, fixed, cx, hnd, ctl, conn, exc>>

\* io.py:208  the connection loop's condition; a new iteration starts with
\* no frame data
inner_check ==
    /\ pc = "inner_check"
    /\ IF running /\ ~shutdown_requested
       THEN /\ pc' = "reload_test"
            /\ ret' = "inner"
            /\ reset_frame
            /\ close_reason' = close_reason
       ELSE /\ pc' = "conn_exit"
            /\ close_reason' = "loop ended"
            /\ UNCHANGED <<ret, frame>>
    /\ UNCHANGED <<life, fixed, cx, hnd, ctl, conn, exc>>

\* a break out of the connection loop, with the line it logs
break(why) ==
    /\ pc' = "conn_exit"
    /\ close_reason' = why

\* socket.close() of the client socket, by the `with` of io.py:204: the
\* socket, its timeout and the connection's counts are gone
close_socket ==
    /\ conn' = "none"
    /\ n_open' = n_open - 1
    /\ sock_timeout' = "none"
    /\ recvd' = 0 /\ calls' = 0 /\ done' = 0

\* C25 mutant: the handler is discarded with the connection it served
conn_exit_drops ==
    /\ pc = "conn_exit"
    /\ close_socket
    /\ reset_frame
    /\ pc' = "outer_check"
    /\ handler' = 0
    /\ UNCHANGED <<ret, life, fixed, n_inst, last_reload, ctl, close_reason, exc>>

\* C14 mutant: the connection loop is left with the client socket open
conn_exit_mut ==
    /\ pc = "conn_exit"
    /\ reset_frame
    /\ pc' = "outer_check"
    /\ UNCHANGED <<ret, life, fixed, cx, conn, hnd, ctl, close_reason, exc>>

\* io.py:204, 327  leaving `with client_socket` closes the connection
conn_exit ==
    /\ pc = "conn_exit"
    /\ close_socket
    /\ reset_frame
    /\ pc' = "outer_check"
    /\ UNCHANGED <<ret, life, fixed, hnd, ctl, close_reason, exc>>

\* C32 mutant: serve() has no finally clause, an exception leaves the server
\* as it was
propagate_mut(e) ==
    /\ close_socket
    /\ UNCHANGED life
    /\ pc' = "raised"
    /\ exc' = e

\* an exception nothing in serve() catches: `with` closes the connection,
\* `finally` runs stop(), and serve() raises it
propagate(e) ==
    /\ close_socket
    /\ stop
    /\ pc' = "raised"
    /\ exc' = e

(* -------------------------- connection handler ------------------------ *)

\* io.py:211-235  read the 4-byte width tag and look it up in fmt_map
recv_header ==
    /\ pc = "recv_header"
    /\ \E r \in recv_exact(HeaderBytes), tag \in WidthInputs :
        /\ r.err = "none" => done < MaxReqs
        /\ rd' = rd + r.got
        /\ recv_err' = r.err
        /\ IF r.err # "none"
           THEN /\ break("disconnected (no header)")
                /\ UNCHANGED <<int_width, handler_at_start>>
           ELSE /\ int_width' = Unpack(Pack(HeaderBytes, tag))
                /\ handler_at_start' = handler
                /\ IF int_width' \notin fmt_map
                   THEN break("unsupported integer width")
                   ELSE pc' = "recv_natoms" /\ close_reason' = close_reason
    /\ UNCHANGED <<ret, life, fixed, cx, hnd, ctl, conn, exc,
                   n_atoms, wr, invoked, used_handler, result>>

\* io.py:237-251  read n_atoms (int_width bytes, signed) and check its range
recv_natoms ==
    /\ pc = "recv_natoms"
    /\ \E r \in recv_exact(int_width), v \in AtomInputs :
        /\ rd' = rd + r.got
        /\ recv_err' = r.err
        /\ IF r.err # "none"
           THEN /\ break("failed reading n_atoms")
                /\ n_atoms' = n_atoms
           ELSE /\ n_atoms' = Unpack(Pack(int_width, v))
                /\ IF ValidAtomCount(n_atoms')
                   THEN pc' = "recv_numbers" /\ close_reason' = close_reason
                   ELSE break("invalid n_atoms")
    /\ UNCHANGED <<ret, life, fixed, cx, hnd, ctl, conn, exc,
                   int_width, wr, invoked, used_handler, handler_at_start, result>>

\* one of the three payload reads of io.py:257-271
recv_section(at, size, next) ==
    /\ pc = at
    /\ \E r \in recv_exact(size) :
        /\ rd' = rd + r.got
        /\ recv_err' = r.err
        /\ IF r.err # "none"
           THEN break("disconnected mid-payload")
           ELSE pc' = next /\ close_reason' = close_reason
        /\ recvd' = IF r.err = "none" /\ next = "invoke" THEN recvd + 1 ELSE recvd
    /\ UNCHANGED <<ret, life, fixed, hnd, ctl, conn, exc, int_width, n_atoms,
                   wr, invoked, used_handler, handler_at_start, result,
                   n_open, sock_timeout, calls, done>>

\* io.py:258-260
recv_numbers ==
    recv_section("recv_numbers", numbers_nbytes(int_width, n_atoms), "recv_coords")

\* io.py:261-263
recv_coords ==
    recv_section("recv_coords", coords_nbytes(n_atoms), "recv_contrib")

\* io.py:264-266
recv_contrib ==
    recv_section("recv_contrib", contrib_nbytes(int_width, n_atoms), "invoke")

\* C9 mutant: the except clause of the handler call also discards the
\* handler that raised
invoke_mut ==
    /\ pc = "invoke"
    /\ IF handler = 0
       THEN /\ break("handler raised")
            /\ UNCHANGED <<invoked, used_handler, result, hnd, calls, post_calls>>
       ELSE \E out \in HandlerOutcomes :
            /\ invoked' = TRUE
            /\ calls' = calls + 1
            /\ post_calls' = IF shutdown_requested THEN post_calls + 1 ELSE post_calls
            /\ used_handler' = handler
            /\ IF out \in {"raises", "not_a_pair"}
               THEN /\ break("handler raised")
                    /\ result' = result
                    /\ handler' = 0
                    /\ UNCHANGED <<n_inst, last_reload>>
               ELSE /\ result' = out
                    /\ pc' = "send_energy"
                    /\ close_reason' = close_reason
                    /\ UNCHANGED hnd
    /\ UNCHANGED <<ret, life, fixed, reload_requested, shutdown_requested, last_sigint_ts,
                   clock, n_sigint, reload_req_pc, conn, exc, int_width, n_atoms,
                   rd, wr, handler_at_start, recv_err,
                   n_open, sock_timeout, recvd, done>>

\* C15 mutant: when the handler raises, an 8-byte error frame is written
\* before the connection is closed
invoke_errframe ==
    /\ pc = "invoke"
    /\ IF handler = 0
       THEN /\ break("handler raised")
            /\ UNCHANGED <<invoked, used_handler, result, calls, wr, post_calls>>
       ELSE \E out \in HandlerOutcomes :
            /\ invoked' = TRUE
            /\ calls' = calls + 1
            /\ post_calls' = IF shutdown_requested THEN post_calls + 1 ELSE post_calls
            /\ used_handler' = handler
            /\ IF out \in {"raises", "not_a_pair"}
               THEN /\ break("handler raised")
                    /\ result' = result
                    /\ wr' = wr + EnergyBytes
               ELSE /\ result' = out
                    /\ pc' = "send_energy"
                    /\ close_reason' = close_reason
                    /\ wr' = wr
    /\ UNCHANGED <<ret, life, fixed, hnd, reload_requested, shutdown_requested, last_sigint_ts,
                   clock, n_sigint, reload_req_pc, conn, exc, int_width, n_atoms,
                   rd, handler_at_start, recv_err,
                   n_open, sock_timeout, recvd, done>>

\* io.py:273-311  decode the arrays (the byte counts are exact, so frombuffer
\* and reshape cannot fail) and call the active handler
invoke ==
    /\ pc = "invoke"
    /\ IF handler = 0
       THEN /\ break("handler raised")
            /\ UNCHANGED <<invoked, used_handler, result, calls, post_calls>>
       ELSE \E out \in HandlerOutcomes :
            /\ invoked' = TRUE
            /\ calls' = calls + 1
            /\ post_calls' = IF shutdown_requested THEN post_calls + 1 ELSE post_calls
            /\ used_handler' = handler
            /\ IF out \in {"raises", "not_a_pair"}
               THEN /\ break("handler raised")
                    /\ result' = result
               ELSE /\ result' = out
                    /\ pc' = "send_energy"
                    /\ close_reason' = close_reason
    /\ UNCHANGED <<ret, life, fixed, hnd, reload_requested, shutdown_requested, last_sigint_ts,
                   clock, n_sigint, reload_req_pc, conn, exc, int_width, n_atoms,
                   rd, wr, handler_at_start, recv_err,
                   n_open, sock_timeout, recvd, done>>

\* socket.sendall(data): all of it, or a timeout / OSError after k bytes
sendall(size) ==
    {[sent |-> size, ok |-> TRUE]} \cup {[sent |-> k, ok |-> FALSE] : k \in 0..(size - 1)}

\* C13 mutant: the iteration ends after the energy is sent; the forces are
\* not written before the next request is read
send_energy_mut ==
    /\ pc = "send_energy"
    /\ IF result = "energy_not_array"
       THEN /\ propagate("AttributeError")
            /\ UNCHANGED <<wr, close_reason>>
       ELSE /\ sock_timeout' = "send_timeout_s"
            /\ \E s \in sendall(EnergyBytes) :
                /\ wr' = wr + s.sent
                /\ IF s.ok
                   THEN pc' = "inner_check" /\ close_reason' = close_reason
                   ELSE break("send failed")
            /\ UNCHANGED <<life, conn, exc, n_open, recvd, calls, done>>
    /\ UNCHANGED <<ret, fixed, hnd, ctl, int_width, n_atoms, rd, invoked,
                   used_handler, handler_at_start, result, recv_err>>

\* io.py:313-315  settimeout(send_timeout_s); sendall(energy.tobytes())
send_energy ==
    /\ pc = "send_energy"
    /\ IF result = "energy_not_array"
       THEN /\ propagate("AttributeError")
            /\ UNCHANGED <<wr, close_reason>>
       ELSE /\ sock_timeout' = "send_timeout_s"
            /\ \E s \in sendall(EnergyBytes) :
                /\ wr' = wr + s.sent
                /\ IF s.ok
                   THEN pc' = "send_forces" /\ close_reason' = close_reason
                   ELSE break("send failed")
            /\ UNCHANGED <<life, conn, exc, n_open, recvd, calls, done>>
    /\ UNCHANGED <<ret, fixed, hnd, ctl, int_width, n_atoms, rd, invoked,
                   used_handler, handler_at_start, result, recv_err>>

\* io.py:316  len(forces.tobytes()): 24 bytes a row, whatever number of rows
\* the handler's array has (n_atoms of them, or here one more)
forces_nbytes ==
    IF result = "forces_wrong_rows"
    THEN coords_nbytes(n_atoms + 1)
    ELSE coords_nbytes(n_atoms)

\* io.py:316-325  sendall(forces.tobytes()), then the next iteration
send_forces ==
    /\ pc = "send_forces"
    /\ IF result = "forces_not_array"
       THEN /\ propagate("AttributeError")
            /\ UNCHANGED <<wr, close_reason>>
       ELSE /\ \E s \in sendall(forces_nbytes) :
                /\ wr' = wr + s.sent
                /\ done' = IF s.ok THEN done + 1 ELSE done
                /\ IF s.ok
                   THEN pc' = "inner_check" /\ close_reason' = close_reason
                   ELSE break("send failed")
            /\ UNCHANGED <<life, conn, exc, n_open, sock_timeout, recvd, calls>>
    /\ UNCHANGED <<ret, fixed, hnd, ctl, int_width, n_atoms, rd, invoked,
                   used_handler, handler_at_start, result, recv_err>>

(* --------------------------- specification ---------------------------- *)

\* the steps of the server thread
\* the steps of the server thread other than the entry of serve()
serving ==
    \/ start
    \/ serve_not_started
    \/ outer_check
    \/ maybe_reload_test
    \/ maybe_reload_clear
    \/ maybe_reload_load
    \/ accept
    \/ inner_check
    \/ recv_header
    \/ recv_natoms
    \/ recv_numbers
    \/ recv_coords
    \/ recv_contrib
    \/ invoke
    \/ send_energy
    \/ send_forces
    \/ conn_exit
    \/ stop_call

server == serve_entry \/ serving

Next == server \/ sigint

Spec == Init /\ [][Next]_vars

\* A server configured with a model file whose serve() is always called with
\* a handler (io.py:178-179).
OverrideInit == Init /\ model_file

OverrideNext == serve_handler \/ serving \/ sigint

OverrideSpec == OverrideInit /\ [][OverrideNext]_vars

\* Where a stop() of another thread is placed.  serve() reads _running and
\* server_socket at its two loop tests and at accept() only (io.py:192, 195,
\* 208), and the stop() of its finally clause ends in the same state whether or
\* not another stop() ran before it: a stop() that runs anywhere else has the
\* effect of one placed just before the next of these steps.
StopPoints == {"outer_check", "accept", "inner_check"}

\* io.py:152-164  stop() called by another thread while serve() runs in the
\* main thread: signal.signal raises ValueError outside the main thread and
\* the except clause of io.py:163-164 swallows it, the handler stays.
external_stop ==
    /\ pc \in StopPoints
    /\ running
    /\ running' = FALSE
    /\ n_close' = IF server_socket # "none" THEN n_close + 1 ELSE n_close
    /\ server_socket' = "none"
    /\ UNCHANGED <<sigint_installed, n_bind>>
    /\ UNCHANGED <<pc, ret, fixed, cx, hnd, ctl, conn, frame, close_reason, exc>>

\* The server with a second thread that may stop it.
StopNext == server \/ sigint \/ external_stop

StopSpec == Init /\ [][StopNext]_vars

\* Every blocking call returns or times out and the handler returns: the
\* server thread always takes its next step.
FairSpec == Spec /\ WF_vars(server)

(* ------------------------- the data of one frame --------------------- *)

\* A codec run follows the bytes of one valid frame through io.py:253-316:
\* the peer lays the frame out, the server decodes it, calls the handler and
\* writes what it returned.  A float64 is its 8 bytes; an integer is packed
\* and unpacked as struct does.

\* the float64 values 0.0, 1.0 and -2.5, little-endian
F64_zero  == <<0, 0, 0, 0, 0, 0, 0, 0>>
F64_one   == <<0, 0, 0, 0, 0, 0, 240, 63>>
F64_minus == <<0, 0, 0, 0, 0, 0, 4, 192>>
\* atomic numbers, mask values, position rows, energies and force rows drawn
SpeciesInputs  == {2, 18}
MaskInputs     == {0, 1}
PositionInputs ==
    {<<F64_zero, F64_one, F64_minus>>, <<F64_one, F64_one, F64_zero>>,
     <<F64_minus, F64_zero, F64_zero>>}
EnergyInputs   == {F64_zero, F64_minus}
ForceInputs    == {<<F64_one, F64_zero, F64_minus>>, <<F64_minus, F64_one, F64_one>>}

\* ndarray.tobytes() of an integer array of item size w
ints_tobytes(w, vals) ==
    [k \in 1..(w * Len(vals)) |-> Pack(w, vals[((k - 1) \div w) + 1])[((k - 1) % w) + 1]]

\* ndarray.tobytes() of a 1-d float64 array (io.py:315)
tobytes(vals) ==
    [k \in 1..(8 * Len(vals)) |-> vals[((k - 1) \div 8) + 1][((k - 1) % 8) + 1]]

\* ndarray.ravel() of an (n, 3) array in C order, which tobytes() follows
ravel(rows) ==
    [k \in 1..(3 * Len(rows)) |-> rows[((k - 1) \div 3) + 1][((k - 1) % 3) + 1]]

\* the frame a peer builds from (Z, R, M): the fields in the order and with
\* the sizes the server reads them (io.py:212, 238, 258-266)
encode_request(w, Z, R, M) ==
    Pack(HeaderBytes, w) \o Pack(w, Len(Z)) \o ints_tobytes(w, Z)
        \o tobytes(ravel(R)) \o ints_tobytes(w, M)

\* np.frombuffer(bytes, dtype): the items of size w of the buffer
frombuffer(bytes, w) ==
    [i \in 1..(Len(bytes) \div w) |-> SubSeq(bytes, (i - 1) * w + 1, i * w)]

\* np.frombuffer(bytes, dtype=int_type) (io.py:274-276, 282-284)
frombuffer_int(bytes, w) ==
    [i \in 1..(Len(bytes) \div w) |-> Unpack(frombuffer(bytes, w)[i])]

\* C18 mutant: the positions are laid out column by column
reshape_mut(flat, n) ==
    [i \in 1..n |-> [j \in 1..3 |-> flat[(j - 1) * n + i]]]

\* ndarray.reshape((n, 3)) (io.py:280)
reshape(flat, n) ==
    [i \in 1..n |-> [j \in 1..3 |-> flat[3 * (i - 1) + j]]]

\* the server's variables (and the decorator's), which a codec run leaves
\* alone
srv == <<pc, ret, life, model_file, hnd, ctl, conn, cx, frame, close_reason, exc,
         deco, lib>>

\* a constructed server and one frame on the wire
CodecInit ==
    /\ ServerInit
    /\ NoDeco
    /\ NoLib
    /\ model_file = FALSE
    /\ stage = "framed"
    /\ \E w \in fmt_map, n \in 1..MaxAtoms :
        \E Z \in [1..n -> SpeciesInputs], R \in [1..n -> PositionInputs],
           M \in [1..n -> MaskInputs] :
            /\ request = [w |-> w, n |-> n, Z |-> Z, R |-> R, M |-> M]
            /\ wire = encode_request(w, Z, R, M)
    /\ args = [Z |-> <<>>, R |-> <<>>, M |-> <<>>]
    /\ reply = [energy |-> <<>>, forces |-> <<>>]
    /\ out_bytes = <<>>

\* io.py:211-290  the reads cut the stream into the tag, n_atoms and the
\* three sections; frombuffer and reshape make the arrays
decode_request ==
    /\ stage = "framed"
    /\ LET w  == Unpack(SubSeq(wire, 1, HeaderBytes))
           n  == Unpack(SubSeq(wire, HeaderBytes + 1, HeaderBytes + w))
           at == HeaderBytes + w
           numbers_bytes == SubSeq(wire, at + 1, at + numbers_nbytes(w, n))
           coords_bytes  ==
               SubSeq(wire, at + numbers_nbytes(w, n) + 1,
                      at + numbers_nbytes(w, n) + coords_nbytes(n))
           contributing_bytes ==
               SubSeq(wire, at + numbers_nbytes(w, n) + coords_nbytes(n) + 1,
                      at + numbers_nbytes(w, n) + coords_nbytes(n)
                         + contrib_nbytes(w, n))
       IN  args' = [Z |-> frombuffer_int(numbers_bytes, w),
                    R |-> reshape(frombuffer(coords_bytes, 8), n),
                    M |-> frombuffer_int(contributing_bytes, w)]
    /\ stage' = "decoded"
    /\ UNCHANGED <<srv, request, wire, reply, out_bytes>>

\* io.py:303  energy, forces = current(Z, R, M): the handler returns what it
\* likes for the n atoms it was given
call_handler ==
    /\ stage = "decoded"
    /\ \E e \in EnergyInputs, F \in [1..Len(args.Z) -> ForceInputs] :
        reply' = [energy |-> <<e>>, forces |-> F]
    /\ stage' = "called"
    /\ UNCHANGED <<srv, request, wire, args, out_bytes>>

\* C19 mutant: the forces of atoms whose mask is 0 are zeroed before they
\* are sent
write_response_mut ==
    /\ stage = "called"
    /\ LET masked == [i \in 1..Len(reply.forces) |->
                        IF args.M[i] = 0
                        THEN <<F64_zero, F64_zero, F64_zero>>
                        ELSE reply.forces[i]]
       IN  out_bytes' = tobytes(reply.energy) \o tobytes(ravel(masked))
    /\ stage' = "written"
    /\ UNCHANGED <<srv, request, wire, args, reply>>

\* io.py:315-316  sendall(energy.tobytes()); sendall(forces.tobytes())
write_response ==
    /\ stage = "called"
    /\ out_bytes' = tobytes(reply.energy) \o tobytes(ravel(reply.forces))
    /\ stage' = "written"
    /\ UNCHANGED <<srv, request, wire, args, reply>>

CodecNext == decode_request \/ call_handler \/ write_response

CodecSpec == CodecInit /\ [][CodecNext]_vars

(* ------------------------ the kusp_model decorator -------------------- *)

\* inspect.Parameter kinds; a parameter list is a sequence of kinds
ParamKinds == {"POSITIONAL_OR_KEYWORD", "VAR_POSITIONAL", "VAR_KEYWORD"}
ParamLists == UNION {[1..k -> ParamKinds] : k \in 0..MaxParams}
\* return annotations of the target ("none": no hint)
ReturnHints ==
    {"none", "Tuple[np.ndarray, np.ndarray]", "Tuple[np.ndarray]",
     "Tuple[np.ndarray, float]", "np.ndarray"}

\* kusp.py:68  params[1:] for a class (self is dropped), params otherwise
user_params(f) ==
    IF f.is_class /\ Len(f.params) > 0 THEN Tail(f.params) ELSE f.params

\* kusp.py:56-110  _decorator(functor): "TypeError" when it raises, "marked"
\* when it sets __kusp_model__ and returns the functor
_decorator(f, strict) ==
    IF Len(user_params(f)) < 3
    THEN "TypeError"
    ELSE IF \E i \in 1..Len(user_params(f)) :
                user_params(f)[i] \in {"VAR_POSITIONAL", "VAR_KEYWORD"}
    THEN "TypeError"
    ELSE IF f.hint # "Tuple[np.ndarray, np.ndarray]"
    THEN "TypeError"
    ELSE "marked"

\* a module is imported and kusp_model(..., strict_arg_check=...) is about to
\* decorate one callable or class of it
DecoInit ==
    /\ ServerInit
    /\ NoCodec
    /\ NoLib
    /\ model_file = FALSE
    /\ \E c \in BOOLEAN, ps \in ParamLists, h \in ReturnHints :
        functor = [is_class |-> c, params |-> ps, hint |-> h]
    /\ strict_arg_check \in BOOLEAN
    /\ decorated = "pending"

\* kusp.py:56-110
decorate ==
    /\ decorated = "pending"
    /\ decorated' = _decorator(functor, strict_arg_check)
    /\ UNCHANGED <<pc, ret, life, model_file, hnd, ctl, conn, cx, frame,
                   close_reason, exc, codec, functor, strict_arg_check, lib>>

DecoNext == decorate

DecoSpec == DecoInit /\ [][DecoNext]_vars

(* ----------------------------- recv_exact ----------------------------- *)

\* A recv_exact run follows one call recv_exact(sock, size), utils.py:19-45,
\* chunk by chunk.  The peer sends the bytes of sent and then closes or falls
\* silent; sock holds the bytes of sent not yet received.

\* the values of the bytes on the stream
StreamBytes == {7, 9}
\* what a peer may send
Streams == UNION {[1..n -> StreamBytes] : n \in 0..MaxStream}
\* the ConnectionErrors of utils.py:37, 39, 41
RecvFailures == {"recv timeout", "recv error", "peer closed connection"}

\* b"".join(chunks), utils.py:45
RECURSIVE join(_)
join(cs) == IF cs = <<>> THEN <<>> ELSE Head(cs) \o join(Tail(cs))

\* the server's other variables, which a library run leaves alone
rest == <<pc, ret, life, model_file, hnd, ctl, conn, cx, frame, close_reason, exc,
          codec, deco>>

\* utils.py:31-32  recv_exact(sock, size) has been called
RecvInit ==
    /\ ServerInit
    /\ model_file = FALSE
    /\ NoCodec
    /\ NoDeco
    /\ sent \in Streams
    /\ sock = sent
    /\ rx_size \in 0..MaxSize
    /\ chunks = <<>>
    /\ remaining = rx_size
    /\ rx = "loop"
    /\ rresult = <<>>
    /\ n_recv = 0 /\ asked = 0
    /\ NoStart
    /\ NoLoad
    /\ NoLegacy

\* C34 mutant: every read asks for size bytes
recv_loop_mut ==
    /\ rx = "loop"
    /\ remaining > 0
    /\ n_recv' = n_recv + 1
    /\ asked' = rx_size
    /\ \/ \E k \in 1..rx_size :
            /\ k <= Len(sock)
            /\ chunks' = Append(chunks, SubSeq(sock, 1, k))
            /\ sock' = SubSeq(sock, k + 1, Len(sock))
            /\ remaining' = remaining - k
            /\ rx' = rx
       \/ \E e \in RecvFailures :
            /\ e = "peer closed connection" => sock = <<>>
            /\ rx' = e
            /\ UNCHANGED <<chunks, sock, remaining>>
    /\ UNCHANGED <<sent, rx_size, rresult, rest, startx, loadx, legx>>

\* utils.py:33-44  one iteration of the loop: sock.recv(remaining) hands back
\* between 1 and remaining of the bytes that arrived, or b"" once the peer
\* has closed and nothing is left, or it times out or fails
recv_loop ==
    /\ rx = "loop"
    /\ remaining > 0
    /\ n_recv' = n_recv + 1
    /\ asked' = remaining
    /\ \/ \E k \in 1..remaining :
            /\ k <= Len(sock)
            /\ chunks' = Append(chunks, SubSeq(sock, 1, k))
            /\ sock' = SubSeq(sock, k + 1, Len(sock))
            /\ remaining' = remaining - k
            /\ rx' = rx
       \/ \E e \in RecvFailures :
            /\ e = "peer closed connection" => sock = <<>>
            /\ rx' = e
            /\ UNCHANGED <<chunks, sock, remaining>>
    /\ UNCHANGED <<sent, rx_size, rresult, rest, startx, loadx, legx>>

\* utils.py:33, 45  the loop ends and the chunks are joined
recv_return ==
    /\ rx = "loop"
    /\ remaining <= 0
    /\ rresult' = join(chunks)
    /\ rx' = "returned"
    /\ UNCHANGED <<sent, sock, rx_size, chunks, remaining, n_recv, asked, rest,
                   startx, loadx, legx>>

RecvNext == recv_loop \/ recv_return

RecvSpec == RecvInit /\ [][RecvNext]_vars

\* every sock.recv call returns or times out, and the interpreter goes on
FairRecvSpec == RecvSpec /\ WF_vars(RecvNext)

(* ------------------------- start() called again ---------------------- *)

\* A caller that calls start() and stop() on one instance, in any order and
\* any number of times, outside serve().

\* where the caller is when no serve() of its is running
CallerPcs == StoppablePcs \cup {"started"}

\* C35 mutant: start() has no test of server_socket, it binds whenever called
start_call_mut ==
    /\ pc \in CallerPcs
    /\ n_start < MaxCalls
    /\ n_start' = n_start + 1
    /\ \E on_ready \in BOOLEAN, bound \in BOOLEAN :
        IF bound
        THEN /\ server_socket' = "listening"
             /\ running' = TRUE
             /\ sigint_installed' = TRUE
             /\ n_bind' = n_bind + 1
             /\ n_close' = n_close
             /\ pc' = "started"
             /\ exc' = exc
             /\ n_ready' = IF on_ready THEN n_ready + 1 ELSE n_ready
        ELSE /\ pc' = "start_failed"
             /\ exc' = "OSError"
             /\ UNCHANGED <<life, n_ready>>
    /\ UNCHANGED <<ret, model_file, codec, deco, recvx, loadx, legx, cx, hnd,
                   ctl, conn, frame, close_reason>>

\* io.py:119-150  start(on_ready), whatever the state of the instance: it
\* returns at once when server_socket is set (125-126); otherwise it binds
\* and listens, assigns the fields, installs the handler and calls on_ready
\* when one was given (149-150), or fails with the bind's OSError
start_call ==
    /\ pc \in CallerPcs
    /\ n_start < MaxCalls
    /\ n_start' = n_start + 1
    /\ \E on_ready \in BOOLEAN, bound \in BOOLEAN :
        IF server_socket # "none"
        THEN UNCHANGED <<life, pc, exc, n_ready>>
        ELSE IF bound
        THEN /\ server_socket' = "listening"
             /\ running' = TRUE
             /\ sigint_installed' = TRUE
             /\ n_bind' = n_bind + 1
             /\ n_close' = n_close
             /\ pc' = "started"
             /\ exc' = exc
             /\ n_ready' = IF on_ready THEN n_ready + 1 ELSE n_ready
        ELSE /\ pc' = "start_failed"
             /\ exc' = "OSError"
             /\ UNCHANGED <<life, n_ready>>
    /\ UNCHANGED <<ret, model_file, codec, deco, recvx, loadx, legx, cx, hnd,
                   ctl, conn, frame, close_reason>>

\* io.py:152-164  stop() called by the caller outside serve()
caller_stop ==
    /\ pc \in CallerPcs
    /\ stop
    /\ pc' = "stopped"
    /\ UNCHANGED <<ret, fixed, cx, hnd, ctl, conn, frame, close_reason, exc>>

StartNext == start_call \/ caller_stop

StartSpec == Init /\ [][StartNext]_vars

(* ------------------------- load_kusp_callable ------------------------- *)

\* A load run follows one call load_kusp_callable(path, init_kwargs),
\* utils.py:209-261, on a module file whose namespace holds the objects of
\* mod_objs.

\* An object of the module: a function, a class or anything else; marked
\* says getattr(obj, "__kusp_model__", False) is true (kusp.py:105 sets it);
\* callable is callable(obj) for a function or another object, and
\* callable(instance) for a class.
ModuleObjects ==
    {[kind |-> "function", marked |-> m, callable |-> TRUE] : m \in BOOLEAN}
        \cup [kind : {"class", "other"}, marked : BOOLEAN, callable : BOOLEAN]
\* the namespaces drawn
Modules == UNION {[1..n -> ModuleObjects] : n \in 0..MaxObjs}
\* utils.py:229-234: no module spec, the module's code raises, or it runs
ImportOutcomes == {"ok", "no spec", "raises"}
\* utils.py:250: obj(**init_kwargs) returns an instance or raises
CtorOutcomes == {"ok", "raises"}

\* utils.py:236-240  the objects of the namespace that carry the mark
RECURSIVE exported(_)
exported(objs) ==
    IF objs = <<>> THEN <<>>
    ELSE IF Head(objs).marked
         THEN <<Head(objs)>> \o exported(Tail(objs))
         ELSE exported(Tail(objs))

\* C36 mutant: only an empty list of exports is refused, the first of
\* several is taken
load_mut(objs, imp, ctor) ==
    IF imp = "no spec" THEN [status |-> "ImportError", value |-> "none"]
    ELSE IF imp = "raises" THEN [status |-> "module raised", value |-> "none"]
    ELSE IF Len(exported(objs)) < 1
         THEN [status |-> "ValueError", value |-> "none"]
    ELSE LET obj == exported(objs)[1] IN
         IF obj.kind = "class"
         THEN IF ctor = "raises"
              THEN [status |-> "constructor raised", value |-> "none"]
              ELSE IF ~obj.callable
              THEN [status |-> "TypeError", value |-> "none"]
              ELSE [status |-> "returned", value |-> "instance"]
         ELSE IF ~obj.callable
              THEN [status |-> "TypeError", value |-> "none"]
              ELSE [status |-> "returned", value |-> "object"]

\* utils.py:229-261  load_kusp_callable: how the call ends and what it
\* returns
load(objs, imp, ctor) ==
    IF imp = "no spec" THEN [status |-> "ImportError", value |-> "none"]
    ELSE IF imp = "raises" THEN [status |-> "module raised", value |-> "none"]
    ELSE IF Len(exported(objs)) # 1
         THEN [status |-> "ValueError", value |-> "none"]
    ELSE LET obj == exported(objs)[1] IN
         IF obj.kind = "class"
         THEN IF ctor = "raises"
              THEN [status |-> "constructor raised", value |-> "none"]
              ELSE IF ~obj.callable
              THEN [status |-> "TypeError", value |-> "none"]
              ELSE [status |-> "returned", value |-> "instance"]
         ELSE IF ~obj.callable
              THEN [status |-> "TypeError", value |-> "none"]
              ELSE [status |-> "returned", value |-> "object"]

\* load_kusp_callable is about to be called on a module file
LoadInit ==
    /\ ServerInit
    /\ model_file = TRUE
    /\ NoCodec
    /\ NoDeco
    /\ NoRecv
    /\ NoStart
    /\ NoLegacy
    /\ mod_objs \in Modules
    /\ import_res \in ImportOutcomes
    /\ ctor_res \in CtorOutcomes
    /\ loaded = "pending"
    /\ lhandler = "none"

\* utils.py:209-261
load_call ==
    /\ loaded = "pending"
    /\ loaded' = load(mod_objs, import_res, ctor_res).status
    /\ lhandler' = load(mod_objs, import_res, ctor_res).value
    /\ UNCHANGED <<mod_objs, import_res, ctor_res, rest, recvx, startx, legx>>

LoadNext == load_call

LoadSpec == LoadInit /\ [][LoadNext]_vars

(* ------------------------- legacy KUSPServer -------------------------- *)

\* A legacy run follows KUSPServer.serve (socket_serve.py:57-127) over one
\* connection.  The peer lays out one frame as the module docstring says
\* (socket_serve.py:4-9) and sends its first ks_peer.sent bytes; a peer that
\* sent the whole frame waits for the reply and then closes, one that sent
\* less has closed.  Everything sent has arrived when the server reads, so
\* every recv returns: recv(k) hands back min(k, ks_avail) bytes, b"" when
\* nothing is left.

\* the integer widths a peer uses
LegacyWidths == {4, 8}

\* socket_serve.py:5-9  the length of a frame of n atoms with width w
LegacyFrameLen(w, n) == HeaderBytes + w + n * (w + CoordBytesPerAtom + w)

\* socket.recv(k) on the connection: the number of bytes handed back
ks_recv(k) == IF k < ks_avail THEN k ELSE ks_avail

\* socket_serve.py:58-62  the server has accepted the peer's connection
LegacyInit ==
    /\ ServerInit
    /\ model_file = FALSE
    /\ NoCodec
    /\ NoDeco
    /\ NoRecv
    /\ NoStart
    /\ NoLoad
    /\ \E w \in LegacyWidths, n \in 1..MaxAtoms :
        \E k \in 0..LegacyFrameLen(w, n) :
            /\ ks_peer = [w |-> w, n |-> n, sent |-> k]
            /\ ks_avail = k
    /\ ks_pc = "recv_width"
    /\ ks_int_width = 0 /\ ks_n_atoms = 0 /\ ks_size = 0 /\ ks_recv_size = 0
    /\ ks_natoms_len = 0
    /\ ks_err = "none"
    /\ ks_served = 0 /\ ks_spin = 0

\* what a legacy run leaves alone
ks_rest == <<rest, recvx, startx, loadx, ks_peer>>

\* socket_serve.py:67-72  the width tag: b"" ends the connection, fewer than
\* 4 bytes make struct.unpack("i", data) raise struct.error
ks_recv_width ==
    /\ ks_pc = "recv_width"
    /\ LET got == ks_recv(HeaderBytes) IN
        /\ ks_avail' = ks_avail - got
        /\ IF got = 0
           THEN /\ ks_pc' = "closing"
                /\ UNCHANGED <<ks_int_width, ks_err>>
           ELSE IF got # 4
           THEN /\ ks_pc' = "closing"
                /\ ks_err' = "struct.error"
                /\ UNCHANGED ks_int_width
           ELSE /\ ks_int_width' = ks_peer.w
                /\ ks_pc' = "recv_natoms"
                /\ UNCHANGED ks_err
    /\ UNCHANGED <<ks_n_atoms, ks_size, ks_recv_size, ks_natoms_len, ks_served,
                   ks_spin, ks_rest>>

\* socket_serve.py:75-77  n_atoms: struct.unpack("i", recv(int_width)) needs
\* exactly 4 bytes whatever int_width is; the low 4 bytes of a little-endian
\* n_atoms are its value
ks_recv_natoms ==
    /\ ks_pc = "recv_natoms"
    /\ LET got == ks_recv(ks_int_width) IN
        /\ ks_avail' = ks_avail - got
        /\ ks_natoms_len' = got
        /\ IF got # 4
           THEN /\ ks_pc' = "closing"
                /\ ks_err' = "struct.error"
                /\ UNCHANGED <<ks_n_atoms, ks_size>>
           ELSE /\ ks_n_atoms' = ks_peer.n
                /\ ks_size' = ks_peer.n * (ks_int_width + CoordBytesPerAtom + ks_int_width)
                /\ ks_pc' = "get_all_data"
                /\ UNCHANGED ks_err
    /\ ks_recv_size' = 0
    /\ UNCHANGED <<ks_int_width, ks_served, ks_spin, ks_rest>>

\* socket_serve.py:27-30  one iteration of get_all_data's loop: recv(size),
\* appended whatever its length
get_all_data_loop ==
    /\ ks_pc = "get_all_data"
    /\ ks_recv_size < ks_size
    /\ LET got == ks_recv(ks_size) IN
        /\ ks_avail' = ks_avail - got
        /\ ks_recv_size' = ks_recv_size + got
        /\ ks_spin' = IF got = 0 THEN 1 - ks_spin ELSE ks_spin
    /\ UNCHANGED <<ks_pc, ks_int_width, ks_n_atoms, ks_size, ks_natoms_len,
                   ks_err, ks_served, ks_rest>>

\* socket_serve.py:27, 31, 78-80  the loop ends, the size is compared
get_all_data_return ==
    /\ ks_pc = "get_all_data"
    /\ ks_recv_size >= ks_size
    /\ IF ks_recv_size # ks_size
       THEN ks_pc' = "closing" /\ ks_err' = "ValueError"
       ELSE ks_pc' = "invoke" /\ ks_err' = ks_err
    /\ UNCHANGED <<ks_avail, ks_int_width, ks_n_atoms, ks_size, ks_recv_size,
                   ks_natoms_len, ks_served, ks_spin, ks_rest>>

\* socket_serve.py:83-125  the model is run and the reply written, or the
\* model raises
ks_invoke ==
    /\ ks_pc = "invoke"
    /\ \E out \in {"ok", "raises"} :
        IF out = "ok"
        THEN /\ ks_served' = ks_served + 1
             /\ ks_pc' = "recv_width"
             /\ ks_err' = ks_err
        ELSE /\ ks_pc' = "closing"
             /\ ks_err' = "model raised"
             /\ ks_served' = ks_served
    /\ UNCHANGED <<ks_avail, ks_int_width, ks_n_atoms, ks_size, ks_recv_size,
                   ks_natoms_len, ks_spin, ks_rest>>

\* socket_serve.py:60-61, 123-126  the break leaves `with client_socket`, the
\* connection is closed and the server is back in accept()
ks_close ==
    /\ ks_pc = "closing"
    /\ ks_pc' = "accept"
    /\ UNCHANGED <<ks_avail, ks_int_width, ks_n_atoms, ks_size, ks_recv_size,
                   ks_natoms_len, ks_err, ks_served, ks_spin, ks_rest>>

LegacyNext ==
    \/ ks_recv_width
    \/ ks_recv_natoms
    \/ get_all_data_loop
    \/ get_all_data_return
    \/ ks_invoke
    \/ ks_close

LegacySpec == LegacyInit /\ [][LegacyNext]_vars

\* the server's thread always takes its next step
FairLegacySpec == LegacySpec /\ WF_vars(LegacyNext)

(* ------------------------------ claims -------------------------------- *)

\* serve() has ended: it returned or it raised
Ended == pc \in {"returned", "raised"}

\* C1: per-connection errors are isolated: whatever goes wrong while serving
\* one connection (bad width tag, bad atom count, short read, handler
\* exception, a handler result that cannot be serialised, failed send), the
\* connection is closed with the server still listening and serve() does
\* not end, unless shutdown was requested: serve() ends only by a shutdown
\* request or by a failure of accept() itself.
C1_PerConnectionErrorsIsolated ==
    /\ (pc = "conn_exit" /\ close_reason # "loop ended")
            => running /\ server_socket = "listening" /\ exc = "none"
    /\ (Ended /\ ~shutdown_requested) => exc = "accept OSError"

\* the n_atoms field of the current frame has been read in full
NAtomsRead == int_width \in fmt_map /\ rd >= HeaderBytes + int_width

\* C2: a request whose n_atoms is 0, negative or above max_atoms closes the
\* connection with the handler not invoked, no byte read after the n_atoms
\* field and no byte written; n_atoms = 1 and n_atoms = max_atoms are not
\* rejected.
C2_InvalidAtomCountRejected ==
    /\ (NAtomsRead /\ (n_atoms <= 0 \/ n_atoms > MaxAtoms))
            => /\ pc = "conn_exit"
               /\ close_reason = "invalid n_atoms"
               /\ rd = HeaderBytes + int_width
               /\ wr = 0
               /\ ~invoked
    /\ (NAtomsRead /\ n_atoms >= 1 /\ n_atoms <= MaxAtoms)
            => ~(pc = "conn_exit" /\ close_reason = "invalid n_atoms")

\* C2 witness: a negative atom count was read and the connection is being
\* closed for it
C2_Witness ==
    /\ pc = "conn_exit" /\ close_reason = "invalid n_atoms"
    /\ n_atoms < 0 /\ int_width = 8

\* the step of _maybe_reload in which load_kusp_callable raised
LoadFailedStep == pc = "reload_load" /\ pc' # pc /\ last_reload' = "failed"

\* the step in which the handler is called
InvokeStep == pc = "invoke" /\ ~invoked /\ invoked'

\* C3 as stated: after a failed reload the active handler is the instance it
\* was before, reload_requested is false, and later requests are computed
\* by that handler.
C3_FailedReloadAsStated ==
    /\ [][LoadFailedStep => (handler' = handler /\ ~reload_requested')]_vars
    /\ [][InvokeStep => (used_handler' = handler /\ handler # 0)]_vars

\* C3 amended: after a failed reload the active handler is the instance it
\* was before and the attempt leaves reload_requested as it found it: false,
\* unless an interrupt delivered after the flag was cleared (during the
\* load) requested a reload again; later requests are computed by the
\* retained handler.
C3_FailedReloadKeepsHandler ==
    /\ [][LoadFailedStep =>
            /\ handler' = handler
            /\ reload_requested' = reload_requested
            /\ (reload_requested' => reload_req_pc' = "reload_load")]_vars
    /\ [][InvokeStep => (used_handler' = handler /\ handler # 0)]_vars

\* C3 witness: a reload failed and a request was then computed by the first
\* handler
C3_Witness ==
    /\ last_reload = "failed" /\ n_inst = 1
    /\ invoked /\ used_handler = 1 /\ pc = "send_energy"

\* C4: every interrupt at time now sets shutdown_requested and not
\* reload_requested when now - last_interrupt_timestamp <= 2.0, and sets
\* reload_requested and not shutdown_requested otherwise; either way
\* last_interrupt_timestamp becomes now.
C4_InterruptClassified ==
    [][n_sigint' # n_sigint =>
        /\ last_sigint_ts' = clock'
        /\ IF clock' - last_sigint_ts <= 2
           THEN shutdown_requested' /\ reload_requested' = reload_requested
           ELSE reload_requested' /\ shutdown_requested' = shutdown_requested]_vars

\* C4 witness: a reload interrupt, then one exactly at the window's end
\* (3.0 then 5.0) that asked for shutdown
C4_Witness ==
    /\ n_sigint = 2 /\ last_sigint_ts = 5 /\ clock = 5
    /\ reload_requested /\ shutdown_requested /\ reload_req_pc # "none"

\* C5: the first interrupt a started server receives sets reload_requested
\* and leaves shutdown_requested false, whatever the monotonic clock reads;
\* a later one within the window sets shutdown_requested, one after the
\* window sets reload_requested.
C5_FirstInterruptReloads ==
    [][n_sigint' # n_sigint =>
        IF n_sigint = 0
        THEN reload_requested' /\ ~shutdown_requested'
        ELSE IF clock' - last_sigint_ts <= 2
        THEN shutdown_requested'
        ELSE reload_requested']_vars

\* positions at which a request is in flight (header read, response not yet
\* written in full)
InFlightPcs ==
    {"recv_natoms", "recv_numbers", "recv_coords", "recv_contrib", "invoke",
     "send_energy", "send_forces"}

\* positions at which the server waits with no request in progress
IdlePcs == {"accept", "inner_check", "recv_header"}

\* C6: a reload requested while a request is in flight does not change the
\* handler of that request (it is computed by the handler active when its
\* header was read), and the request is taken up before the next request of
\* the connection is read, so that one is computed by the handler then
\* active.
C6_InFlightKeepsHandler ==
    /\ invoked => (used_handler = handler_at_start /\ used_handler = handler)
    /\ pc \in InFlightPcs => handler = handler_at_start
    /\ pc = "recv_header" => reload_req_pc \notin InFlightPcs

\* C6 witness: a reload was requested during the payload read and the
\* response is being written by the handler that was active at the start
C6_Witness ==
    /\ pc = "send_forces" /\ invoked /\ wr = EnergyBytes
    /\ reload_requested /\ reload_req_pc = "recv_coords"

\* C7: a reload requested while the connection is idle or while accept()
\* waits is attempted before the handler is invoked for the next request.
C7_IdleReloadBeforeNextRequest ==
    invoked => reload_req_pc \notin IdlePcs

\* the accept loop of serve() is running
InLoop == pc \notin {"constructed", "start_failed", "started", "serve_failed",
                     "returned", "raised", "stopped"}

\* C8: once shutdown is requested the accept loop exits, the listening
\* socket is closed and serve() returns.
C8_ShutdownEventuallyReturns ==
    (shutdown_requested /\ InLoop)
        ~> (pc = "returned" /\ server_socket = "none" /\ conn = "none")

C10_ShortReadClosesConnection ==
    /\ invoked => (rd = FrameBytes(int_width, n_atoms) /\ recv_err = "none")
    /\ recv_err # "none"
        => /\ pc = "conn_exit"
           /\ rd < FrameBytes(int_width, IF n_atoms > 0 THEN n_atoms ELSE 1)
           /\ ~invoked /\ wr = 0
           /\ running /\ server_socket = "listening" /\ exc = "none"

\* C10 witness: a peer stalled inside the positions section, and a later
\* connection had a request computed
C10_Witness ==
    /\ close_reason = "disconnected mid-payload"
    /\ invoked /\ pc = "send_energy"

\* the width tag of the current frame has been read in full
HeaderRead == rd >= HeaderBytes

\* C11: a request whose 4-byte width tag is neither 4 nor 8 (zero and
\* negative tags included) closes the connection with exactly the 4 tag
\* bytes read (no n_atoms field, no later byte), the handler not invoked and
\* no byte written; the tags 4 and 8 are not rejected.
C11_UnsupportedWidthRejected ==
    /\ (HeaderRead /\ int_width # 4 /\ int_width # 8)
            => /\ pc = "conn_exit"
               /\ close_reason = "unsupported integer width"
               /\ rd = HeaderBytes
               /\ n_atoms = 0
               /\ wr = 0
               /\ ~invoked /\ calls = done
    /\ (HeaderRead /\ int_width \in {4, 8})
            => ~(pc = "conn_exit" /\ close_reason = "unsupported integer width")

\* C11 witness: the second request of a connection carries the tag 16 and the
\* connection is being closed for it
C11_Witness ==
    /\ pc = "conn_exit" /\ close_reason = "unsupported integer width"
    /\ int_width = 16 /\ done = 1

\* where the server blocks in a recv on the client socket
RecvPcs ==
    {"recv_header", "recv_natoms", "recv_numbers", "recv_coords", "recv_contrib"}

\* C12: every blocking receive on a client connection runs under the
\* receive timeout (the socket's timeout was set from recv_timeout_s) and
\* every send under the send timeout (set from send_timeout_s), for the
\* first and for every later request of a connection; the two settings are
\* independent values.  (The energy send sets the send timeout in its own
\* step, io.py:314-315, so bytes written are bytes written under it.)
C12_TimeoutsAsConfigured ==
    /\ pc \in RecvPcs => sock_timeout = "recv_timeout_s"
    /\ pc = "send_forces" => sock_timeout = "send_timeout_s"
    /\ (conn = "open" /\ wr > 0) => sock_timeout = "send_timeout_s"

\* where the server blocks in a send on the client socket
SendPcs == {"send_energy", "send_forces"}

\* C13: within one connection requests are handled in arrival order, one at
\* a time.  With recvd, calls and done the connection's counts of requests
\* received in full, handler calls and responses written in full: the
\* handler is called once per request received (never ahead, never
\* twice); while any byte of a request is being read every earlier request
\* of the connection has been called for and answered in full; and the
\* response being written is the (done+1)-th, for the (done+1)-th request,
\* from the (done+1)-th call.
C13_RequestsInOrder ==
    /\ calls \in {recvd - 1, recvd} /\ done \in {calls - 1, calls}
    /\ pc = "invoke" => (recvd = calls + 1 /\ done = calls /\ ~invoked)
    /\ invoked => calls = recvd
    /\ pc \in RecvPcs => (calls = recvd /\ done = recvd /\ ~invoked /\ wr = 0)
    /\ pc \in SendPcs => (invoked /\ recvd = done + 1 /\ calls = done + 1)
    /\ wr > 0 => (invoked /\ rd = 4 + int_width + 2 * n_atoms * int_width + 24 * n_atoms)

\* C13 witness: the second response of a connection is being written
C13_Witness ==
    pc = "send_forces" /\ recvd = 2 /\ calls = 2 /\ done = 1 /\ wr = EnergyBytes

\* where the server is inside `with client_socket` (io.py:204-327)
ConnPcs ==
    RecvPcs \cup SendPcs \cup {"inner_check", "invoke", "conn_exit"}

\* C14: connections are served serially: at most one accepted client socket
\* is open at any moment; outside the connection loop (so whenever accept()
\* is about to be called, and once serve() has returned or raised) none is
\* open, whatever way the connection loop was left.
C14_OneConnectionAtATime ==
    /\ n_open \in {0, 1}
    /\ (n_open = 1) = (conn = "open")
    /\ pc = "accept" => n_open = 0
    /\ Ended => n_open = 0
    /\ n_open = 1 => (pc \in ConnPcs \/ (ret = "inner" /\ pc \in {"reload_test", "reload_clear", "reload_load"}))

\* C14 witness: a connection was closed after its handler raised and the
\* server is about to call accept() again
C14_Witness ==
    pc = "accept" /\ close_reason = "handler raised" /\ n_open = 0

\* the log lines of the breaks taken before any byte of a response is due
FatalBeforeResponse ==
    {"disconnected (no header)", "unsupported integer width",
     "failed reading n_atoms", "invalid n_atoms", "disconnected mid-payload",
     "handler raised"}

\* C15: a connection-fatal error closes the connection with no further
\* bytes.  When the connection is about to be closed for a bad width tag, a
\* bad atom count, a short read or timeout or a handler exception, nothing
\* was written for that request (no error frame); when it is about to be
\* closed for a failed send, what was written is a proper prefix of the
\* response (the send was not repeated, nothing follows it); and the step
\* after the error is the close.
C15_NoBytesAfterFatalError ==
    /\ (pc = "conn_exit" /\ close_reason \in FatalBeforeResponse) => wr = 0
    /\ (pc = "conn_exit" /\ close_reason = "send failed")
            => (invoked /\ wr < EnergyBytes + forces_nbytes)
    /\ (conn = "open" /\ (recv_err # "none" \/ (invoked /\ result = "none")))
            => pc = "conn_exit"

\* C15 witness: a send of the forces failed half way and the connection is
\* being closed
C15_Witness ==
    pc = "conn_exit" /\ close_reason = "send failed" /\ wr > EnergyBytes

\* C16: every response written in full is the energy bytes followed by
\* exactly n_atoms * 3 * 8 bytes of forces, n_atoms being the request's
\* atom count, and for a handler result whose forces do not have n_atoms
\* rows no byte is written.
C16_ForcesSectionSized ==
    /\ (pc = "inner_check" /\ invoked) => wr = EnergyBytes + n_atoms * 3 * 8
    /\ result = "forces_wrong_rows" => wr = 0

\* C17: a valid request (w in {4, 8}, 1 <= n <= max_atoms) is consumed in
\* the field order int_width, n_atoms, atomic_numbers, positions,
\* contributing_mask: each read starts at the offset where its field
\* starts, the handler is invoked with exactly 4 + w + n*w + 24*n + n*w
\* bytes read, no read goes past the frame's end, and when the cycle is
\* complete the count still is the frame's length (the next read starts at
\* the next frame's first byte).
C17_ExactBytesConsumed ==
    LET w == int_width
        n == n_atoms
    IN  /\ pc = "recv_header" => rd = 0
        /\ pc = "recv_natoms" => rd = 4
        /\ pc = "recv_numbers" => rd = 4 + w
        /\ pc = "recv_coords" => rd = 4 + w + n * w
        /\ pc = "recv_contrib" => rd = 4 + w + n * w + 24 * n
        /\ (pc = "invoke" \/ invoked)
                => /\ rd = 4 + w + n * w + 24 * n + n * w
                   /\ w \in {4, 8} /\ n >= 1 /\ n <= MaxAtoms
        /\ (w \in {4, 8} /\ n >= 1 /\ n <= MaxAtoms)
                => rd <= 4 + w + n * w + 24 * n + n * w

\* C17 witness: the second frame of a connection, 8-byte integers and
\* max_atoms atoms, has been read and the handler is about to be called
C17_Witness ==
    pc = "invoke" /\ int_width = 8 /\ n_atoms = MaxAtoms /\ done = 1

\* C18: decoding is the inverse of the wire layout: for each width in
\* {4, 8} and each n_atoms in 1..max_atoms, the arrays decoded from the frame
\* a peer built from (atomic_numbers, positions, contributing_mask) are that
\* triple (n_atoms numbers, n_atoms rows of 3 positions in row-major order,
\* n_atoms mask values), and they are what the handler is called with.
C18_DecodeInvertsLayout ==
    stage \in {"decoded", "called", "written"}
        => /\ Len(args.Z) = request.n /\ Len(args.R) = request.n
           /\ Len(args.M) = request.n
           /\ \A i \in 1..request.n :
                /\ args.Z[i] = request.Z[i]
                /\ args.M[i] = request.M[i]
                /\ \A j \in 1..3 : args.R[i][j] = request.R[i][j]

\* C18 witness: a frame of max_atoms atoms with 8-byte integers, two
\* different position rows and two different atomic numbers was decoded and
\* the handler called
C18_Witness ==
    /\ stage = "called" /\ request.w = 8 /\ request.n = MaxAtoms
    /\ request.R[1] # request.R[2] /\ request.Z[1] # request.Z[2]

\* C19: the bytes written for a request are the handler's energy followed by
\* the handler's forces, atom by atom in the request's order and component
\* by component, whatever the contributing mask is (all zeros included).
C19_ResultSentUnaltered ==
    stage = "written"
        => /\ Len(out_bytes) = 8 + 24 * request.n
           /\ \A k \in 1..8 : out_bytes[k] = reply.energy[1][k]
           /\ \A i \in 1..request.n : \A j \in 1..3 : \A k \in 1..8 :
                out_bytes[8 + 24 * (i - 1) + 8 * (j - 1) + k] = reply.forces[i][j][k]

\* C19 witness: a response was written for a request whose mask is all zeros
C19_Witness ==
    /\ stage = "written" /\ request.n = MaxAtoms
    /\ \A i \in 1..request.n : args.M[i] = 0
    /\ reply.forces[1] # reply.forces[2]

\* C20: from the moment serve() enters its accept loop until it ends, the
\* active handler reference is never null: it is one of the instances made
\* so far, through requests, interrupts, successful and failed reloads; a
\* connection is never closed by the "No active handler available" branch
\* (which closes it as "handler raised" with no handler called).
C20_HandlerNeverNull ==
    /\ InLoop => (handler >= 1 /\ handler <= n_inst)
    /\ (pc = "conn_exit" /\ close_reason = "handler raised")
            => (invoked /\ used_handler # 0)

\* C20 witness: a reload succeeded, a later one failed, and the server is
\* reading a request with the second instance active
C20_Witness ==
    /\ pc = "recv_header" /\ last_reload = "failed"
    /\ n_inst = 2 /\ handler = 2

\* C21: stop() is idempotent.  A call of stop() by the caller (the only
\* steps that lead to "stopped"), on a server never started, on one whose
\* start() or serve() failed, on one that serve() already stopped, or after
\* an earlier stop(), raises nothing and leaves the server not listening,
\* not running and the interrupt handler not installed; a call after an
\* earlier stop() changes nothing at all; and over the whole run no
\* listening socket is closed twice (closes never outnumber binds).
C21_StopIdempotent ==
    [][ /\ n_close' <= n_bind'
        /\ pc' = "stopped"
            => /\ server_socket' = "none" /\ ~running' /\ ~sigint_installed'
               /\ exc' = exc
               /\ n_close' - n_close = (IF server_socket = "listening" THEN 1 ELSE 0)
               /\ pc = "stopped" => UNCHANGED life
      ]_vars

\* C21 witness: stop() was called after a serve() that had shut the server
\* down itself
C21_Witness ==
    /\ pc = "stopped" /\ shutdown_requested /\ exc = "none"
    /\ n_bind = 1 /\ n_close = 1

\* C22: a start() whose bind fails raises the bind's OSError and leaves the
\* server not listening: the socket field unset, the running flag false, no
\* interrupt handler installed, nothing counted as bound; and the only thing
\* a serve() called after it does is raise RuntimeError, with no connection
\* accepted and the server still not listening.
C22_FailedStartNotListening ==
    [][ /\ (pc' = "start_failed" /\ pc # "start_failed")
            => /\ exc' = "OSError"
               /\ server_socket' = "none" /\ ~running' /\ ~sigint_installed'
               /\ n_bind' = n_bind /\ conn' = "none"
        /\ (pc = "start_failed" /\ pc' \notin {"start_failed", "stopped"})
            => /\ pc' = "serve_failed" /\ exc' = "RuntimeError"
               /\ server_socket' = "none" /\ ~running' /\ ~sigint_installed'
               /\ conn' = "none" /\ n_open' = 0
      ]_vars

\* C22 witness: the first start() of an instance failed to bind
C22_Witness ==
    /\ pc = "start_failed" /\ exc = "OSError" /\ n_bind = 0
    /\ server_socket = "none" /\ ~running

\* where the caller is before a successful start()
NotStartedPcs == {"constructed", "start_failed"}

\* C23: serve() on a server that start() has not started raises
\* RuntimeError and never gets into the accept loop; serve() on a started
\* server with no model file configured either gets a handler argument or
\* raises RuntimeError; both raises happen with no connection accepted and
\* change neither the listening socket, the running flag, the interrupt
\* handler nor the handler reference, so in the second case the server is
\* still as start() made it.
C23_ServeWithoutStartOrHandler ==
    [][ /\ pc \in NotStartedPcs
            => pc' \in NotStartedPcs \cup {"started", "serve_failed", "stopped"}
        /\ (pc \in NotStartedPcs /\ pc' = "serve_failed")
            => /\ exc' = "RuntimeError"
               /\ UNCHANGED <<life, hnd, conn, n_open>>
        /\ (pc = "started" /\ ~model_file /\ pc' # "started")
            => \/ pc' = "outer_check" /\ handler' # 0
               \/ /\ pc' = "serve_failed" /\ exc' = "RuntimeError"
                  /\ UNCHANGED <<life, hnd, conn, n_open>>
                  /\ server_socket' = "listening" /\ running' /\ sigint_installed'
      ]_vars

\* C23 witness: serve() raised on a started server that has neither a
\* handler nor a model file, and the server is still listening
C23_Witness ==
    /\ pc = "serve_failed" /\ exc = "RuntimeError" /\ ~model_file
    /\ server_socket = "listening" /\ running /\ sigint_installed /\ handler = 0

\* C24: kusp_model(strict_arg_check=False) only warns on signature
\* issues: whatever the callable (fewer than three parameters, *args or
\* **kwargs, no Tuple[np.ndarray, np.ndarray] return hint), the decorator
\* raises TypeError only when strict_arg_check is true; with it false the
\* object is marked as a KUSP model and returned.
C24_NonStrictOnlyWarns ==
    /\ decorated = "TypeError" => strict_arg_check
    /\ (decorated # "pending" /\ ~strict_arg_check) => decorated = "marked"

\* C25: the active handler reference is written only when serve() starts
\* (to the handler given or loaded) and by a successful load of
\* _maybe_reload with a model file configured (to the new instance); no
\* other step (an interrupt, a read, a protocol error, a handler call or
\* exception, a send, a failed reload, a reload request without a model
\* file, a close, a stop) changes it.
C25_HandlerWrittenOnlyByLoad ==
    [][ handler' # handler
            => \/ /\ pc = "started" /\ pc' = "outer_check"
                  /\ handler' = n_inst + 1 /\ n_inst' = n_inst + 1
               \/ /\ pc = "reload_load" /\ model_file
                  /\ last_reload' = "reloaded"
                  /\ handler' = n_inst + 1 /\ n_inst' = n_inst + 1
      ]_vars

\* C25 witness: after a handler exception on one connection and a failed
\* reload, the first handler is still the active one and a later request is
\* being read
C25_Witness ==
    /\ close_reason = "handler raised" /\ last_reload = "failed"
    /\ handler = 1 /\ n_inst = 1 /\ pc = "recv_natoms"

\* the step in which _on_sigint runs
SigintStep == n_sigint' = n_sigint + 1

\* C26: no reload request is lost.  An interrupt classified as a reload
\* (more than the window after the one before) sets reload_requested; the
\* flag, once set, is cleared by nothing but _maybe_reload's clear; with a
\* model file configured that clear is followed by the load attempt, and a
\* _maybe_reload that finds the flag set goes on to the clear; the load
\* attempt leaves the flag as it is.  So an interrupt before the clear is
\* followed by the load of that _maybe_reload, and one after the clear
\* (before or during the load) stays requested for the next check point.
C26_NoReloadRequestLost ==
    [][ /\ (SigintStep /\ clock' - last_sigint_ts > SigintWindow) => reload_requested'
        /\ (reload_requested /\ ~reload_requested')
            => (pc = "reload_clear" /\ (model_file => pc' = "reload_load"))
        /\ (pc = "reload_test" /\ pc' # pc /\ reload_requested) => pc' = "reload_clear"
        /\ (pc = "reload_load" /\ pc' # pc)
            => /\ reload_requested' = reload_requested
               /\ last_reload' \in {"reloaded", "failed"}
      ]_vars

\* C26 witness: an interrupt arrived between the flag clear and the load,
\* the load was attempted, and the request is still pending when the server
\* waits for the next header
C26_Witness ==
    /\ reload_requested /\ reload_req_pc = "reload_load"
    /\ last_reload = "reloaded" /\ pc = "recv_header" /\ ~shutdown_requested

\* the step of _maybe_reload in which load_kusp_callable is called
LoadStep == pc = "reload_load" /\ pc' # pc

\* C27: once shutdown_requested is set, the running serve() attempts no
\* reload and its active handler is not replaced, whatever the interleaving
\* of the interrupts with the loop conditions and _maybe_reload.
C27_NoReloadAfterShutdown ==
    [][(shutdown_requested /\ InLoop) => (~LoadStep /\ handler' = handler)]_vars

\* the step in which accept() returns a connection (io.py:195)
AcceptStep == pc = "accept" /\ conn = "none" /\ conn' = "open"

\* C28: after shutdown_requested becomes true the handler is invoked for at
\* most one more request, and no new connection is accepted.
C28_OneMoreRequestNoAccept ==
    [][(post_calls' <= 1) /\ (shutdown_requested => ~AcceptStep)]_vars

\* where an instance started again after its shutdown can be: start() failed
\* to bind, or serve() is before its first loop test, has returned, has
\* failed at its entry, or stop() was called
NoAcceptPcs ==
    {"start_failed", "started", "outer_check", "returned", "serve_failed",
     "stopped"}

ClearStepNoFile == pc = "reload_clear" /\ ~model_file /\ pc' # pc

\* C30: a reload requested when no model file is configured clears
\* reload_requested and changes nothing else: the active handler stays the
\* same instance and no load is attempted (the call returns to its caller).
C30_ReloadWithoutFileIgnored ==
    [][ClearStepNoFile =>
          /\ ~reload_requested'
          /\ handler' = handler /\ n_inst' = n_inst
          /\ pc' = reload_return /\ pc' # "reload_load"
          /\ UNCHANGED <<ret, life, model_file, cx, conn, frame, close_reason,
                         exc, shutdown_requested, last_sigint_ts, clock,
                         n_sigint, post_calls>>]_vars

\* a reload request was ignored for want of a model file, and the handler
\* passed to serve() is back at waiting for a request
C30_Witness ==
    /\ ~model_file
    /\ last_reload = "ignored"
    /\ ~reload_requested
    /\ handler = 1 /\ n_inst = 1
    /\ pc = "recv_header"

\* the step in which serve() picks its handler (io.py:178-187)
ServeEntryStep == pc = "started" /\ pc' # pc

\* C31: when serve(handler=h) is called on a server that also has a model
\* file, the model file is not loaded at serve start (the entry cannot fail
\* and the active handler is h, the first instance) and every request served
\* by that serve() call is computed by h.  Requests are served only by the
\* first serve() call of an instance, whose h is instance 1.
C31_GivenHandlerServesAll ==
    [][ /\ (ServeEntryStep /\ n_inst = 0) => (pc' = "outer_check" /\ handler' = 1)
        /\ InvokeStep => (model_file /\ used_handler' = 1) ]_vars

\* the step in which serve() leaves its accept loop, returning or raising
LoopLeft == InLoop /\ ~InLoop'

\* C32: whenever the accept loop of serve() is left, by shutdown, by an
\* external stop() or by a propagated exception, stop() has run before
\* serve() returns or raises: the listening socket is closed and unset, the
\* running flag is false and the default interrupt handler is restored.
C32_StoppedWhenLoopLeft ==
    [][LoopLeft => /\ pc' \in {"returned", "raised"}
                   /\ server_socket' = "none"
                   /\ n_close' = n_bind'
                   /\ ~running'
                   /\ ~sigint_installed']_vars

\* serve() returned because another thread stopped the server: no shutdown
\* was requested, and the socket was closed once
C32_Witness ==
    /\ pc = "returned"
    /\ ~shutdown_requested
    /\ server_socket = "none" /\ ~running /\ ~sigint_installed
    /\ n_bind = 1 /\ n_close = 1

\* the step in which the accept() call of io.py:195 ends
AcceptEnds == pc = "accept" /\ pc' # pc

\* stop() has run: the state in which serve() returns or raises
ServerStopped == server_socket = "none" /\ ~running /\ ~sigint_installed

\* C33: an accept() timeout makes the loop poll again (re-checking shutdown
\* and reload); an accept() error other than a timeout ends the loop cleanly
\* when the server is no longer running or shutdown was requested, and
\* otherwise propagates out of serve() after the server has been stopped.
C33_AcceptErrorPaths ==
    [][AcceptEnds =>
        \/ pc' = "inner_check" /\ conn' = "open"
        \/ pc' = "outer_check" /\ UNCHANGED <<life, conn, exc>>
        \/ /\ ~running \/ shutdown_requested
           /\ pc' = "returned" /\ exc' = exc /\ ServerStopped'
        \/ /\ running /\ ~shutdown_requested
           /\ pc' = "raised" /\ exc' # exc /\ ServerStopped']_vars

\* what a recv_exact run has received so far
received == join(chunks)

\* C34: recv_exact(sock, size) either returns exactly size bytes, being the
\* concatenation in arrival order of the chunks received, or raises
\* ConnectionError; it never returns fewer bytes, never requests more than
\* the bytes still missing (so it never consumes bytes belonging to the next
\* field), performs no read when size is 0, and terminates whenever each
\* recv call returns or times out.
C34_RecvExact ==
    /\ [](rx = "returned" =>
            /\ Len(rresult) = rx_size
            /\ rresult = SubSeq(sent, 1, rx_size)
            /\ rresult = received)
    /\ [](rx \in {"loop", "returned"} \cup RecvFailures)
    /\ [](rx # "idle" =>
            /\ asked <= rx_size
            /\ Len(received) <= rx_size
            /\ received \o sock = sent
            /\ (n_recv > 0 /\ rx \in {"loop", "returned"})
                  => asked + Len(received) - Len(chunks[Len(chunks)]) <= rx_size)
    /\ []((rx # "idle" /\ rx_size = 0) => n_recv = 0)
    /\ <>(rx \in {"returned"} \cup RecvFailures)

\* a call that returned its 3 bytes from three reads, with a byte of the
\* next field left on the socket
C34_Witness ==
    /\ rx = "returned"
    /\ rx_size = 3 /\ n_recv = 3
    /\ Len(rresult) = 3
    /\ sock # <<>>

\* a call of start() on a server that has a listening socket
StartAgain == n_start' = n_start + 1 /\ server_socket # "none"

\* C35: start() is idempotent while listening: a second start() on a server
\* that already has a listening socket returns without creating or binding
\* another socket, without changing any state and without invoking on_ready;
\* exactly one listening socket exists per started server.
C35_StartIdempotent ==
    /\ [][StartAgain => UNCHANGED <<pc, ret, life, model_file, cx, hnd, ctl, conn,
                                    frame, close_reason, exc, n_ready>>]_vars
    /\ [](n_bind - n_close = IF server_socket = "none" THEN 0 ELSE 1)

\* start() was called three times on a server that is still listening on the
\* socket of the first call, and on_ready ran once
C35_Witness ==
    /\ n_start = 3
    /\ n_bind = 1 /\ n_close = 0
    /\ server_socket = "listening" /\ pc = "started"
    /\ n_ready = 1

\* the number of marked objects in the module's namespace
n_exports == Cardinality({i \in 1..Len(mod_objs) : mod_objs[i].marked})

\* the one export, when there is exactly one
the_export == mod_objs[CHOOSE i \in 1..Len(mod_objs) : mod_objs[i].marked]

\* the module was imported and, for a class, the instance was made
Loadable ==
    /\ import_res = "ok"
    /\ n_exports = 1 => (the_export.kind = "class" => ctor_res = "ok")

WholeFrame == ks_peer.sent = LegacyFrameLen(ks_peer.w, ks_peer.n)

\* C37: the legacy KUSPServer follows its documented incoming-data layout for
\* both integer widths: after the 4-byte int_width it reads n_atoms as an
\* int_width-byte integer and serves the request, for int_width 4 and for
\* int_width 8.
C37_LegacyBothWidths ==
    (ks_pc # "idle" /\ WholeFrame) =>
        /\ ks_err # "struct.error"
        /\ ks_pc \in {"get_all_data", "invoke"} => ks_natoms_len = ks_peer.w
        /\ (ks_pc = "accept" /\ ks_err = "none") => ks_served = 1

\* C38: in the legacy KUSPServer reading a payload always terminates:
\* get_all_data returns or fails for every peer behaviour, including a peer
\* that closes the connection before sending all size bytes, after which the
\* server closes that connection and returns to accept the next one.
C38_GetAllDataTerminates ==
    (ks_pc = "get_all_data") ~> (ks_pc = "accept")

====
